---- MODULE Spec2Model ----
(***************************************************************************)
(* A model of src/src/nanaimo/__init__.py: the task observation helpers of *)
(* Fixture (observe_tasks, observe_tasks_assert_not_done, _observe_tasks), *)
(* the FixtureManager fixture cache and the chained Namespace / Artifacts. *)
(*                                                                         *)
(* The specifications share the module, one per component:                 *)
(*   SpecObserve    one call of observe_tasks[_assert_not_done]            *)
(*   SpecObserveLive  the same under the scheduling of the event loop      *)
(*   SpecManager    get_fixture / fixture_types on FixtureManager objects  *)
(*   SpecReentrant  get_fixture called again by the constructors it runs   *)
(*   SpecNamespace  construction, attribute writes and lookups             *)
(*   SpecCountdown  one call of countdown_sleep                            *)
(***************************************************************************)
EXTENDS Integers, Sequences, FiniteSets, TLC

VARIABLES
    \* ---- the event loop and the tasks (SpecObserve)
    clock,          \* loop.time(), in whole instants
    tstate,         \* task -> "running" | "finished" | "raised" | "cancelled"
    observer_done_at,   \* instant at which the observer completed (None while running)
    \* ---- one call of observe_tasks / observe_tasks_assert_not_done
    pc,             \* position of the call
    variant,        \* "observe_tasks" | "observe_tasks_assert_not_done"
    timeout_seconds,
    the_children_are_our_futures,   \* the wait set (observer and companions)
    start_time,
    wait_timeout,
    deadline,       \* when the timer of the current asyncio.wait fires
    yielded,        \* the current cycle already let the loop advance the clock
    done,           \* done set of the last asyncio.wait
    pending,        \* pending set of the last asyncio.wait
    result,         \* what the public method returned
    \* ---- FixtureManager (SpecManager)
    registry,       \* what hook.get_fixture_type() yields, in order
    fixture_cache,  \* manager -> (name -> instance)
    instances,      \* every Fixture ever constructed
    returned,       \* manager -> name -> set of instances get_fixture returned
    last_call,      \* the last manager call and its outcome
    constructing,   \* stack of the get_fixture calls whose constructor is running
    \* ---- Namespace / Artifacts (SpecNamespace)
    ns_kind,        \* object -> "Namespace" | "Artifacts"
    ns_parent,      \* object -> parent object, or NoObject
    ns_dict,        \* object -> its __dict__ without _parent
    ns_last,        \* the last namespace operation and its outcome
    \* ---- one call of countdown_sleep (SpecCountdown)
    sleep_time_seconds,
    count_down,
    cd_pc,          \* position of the call
    waited,         \* seconds slept so far
    logged          \* what was logged, in order

observeVars == <<clock, tstate, observer_done_at, pc, variant, timeout_seconds,
                 the_children_are_our_futures, start_time, wait_timeout,
                 deadline, yielded, done, pending, result>>
managerVars == <<registry, fixture_cache, instances, returned, last_call, constructing>>
namespaceVars == <<ns_kind, ns_parent, ns_dict, ns_last>>
countdownVars == <<sleep_time_seconds, count_down, cd_pc, waited, logged>>
vars == <<observeVars, managerVars, namespaceVars, countdownVars>>

-----------------------------------------------------------------------------
(* Bounds of the model *)

MaxTime == 6
MaxStart == 1
MaxCompanions == 2
MaxTypes == 3
MaxObjects == 3
MaxDepth == 2
MaxSleep == 10

-----------------------------------------------------------------------------
(***************************************************************************)
(* Fixture._observe_tasks and its two public wrappers.                     *)
(*                                                                         *)
(* Time: clock counts whole instants of the loop's monotonic clock.  Tasks *)
(* complete at whole instants.  The code of the call itself takes a time   *)
(* that is small against an instant: a wait whose waiter is released       *)
(* resumes in the same instant, and a wait entered with a task already     *)
(* done returns after one iteration of the loop (the done callback is      *)
(* scheduled with call_soon), during which the clock may advance by one    *)
(* instant.  The loop runs a timer as soon as it is due within the         *)
(* resolution of its clock, so the reading of loop.time() at line 328      *)
(* after a wait that timed out may or may not be later than start_time +   *)
(* wait_timeout: the comparison of line 328 is decided by `late` when the  *)
(* whole instants are equal.                                               *)
(***************************************************************************)

None == -1

Observer == "observer"
Companion(i) == "companion" \o ToString(i)
Variants == {"observe_tasks", "observe_tasks_assert_not_done"}
TimeoutValues == {-1, 0, 1, 2, 5}
Terminal == {"returned", "TimeoutError", "AssertionError"}

\* Done counting a task that raised as not done
DoneFinishedOnly(t) == tstate[t] \in {"finished", "cancelled"}

\* asyncio.Future.done(): a result, an exception or a cancellation
Done(t) == tstate[t] # "running"

\* a task of the environment finishes, normally or by raising
Complete(t, how) ==
    /\ pc \notin Terminal
    /\ tstate[t] = "running"
    /\ tstate' = [tstate EXCEPT ![t] = how]
    /\ observer_done_at' = IF t = Observer THEN clock ELSE observer_done_at
    /\ UNCHANGED <<clock, pc, variant, timeout_seconds, the_children_are_our_futures,
                   start_time, wait_timeout, deadline, yielded, done, pending, result>>
    /\ UNCHANGED <<managerVars, namespaceVars, countdownVars>>

\* WaitTimeout that never asks for a timer
WaitTimeoutNone(t) == None

\* WaitTimeout with the test of line 317 written >= 0
WaitTimeoutNonNegative(t) == IF t >= 0 THEN t ELSE None

\* line 317: a timeout that is not positive means no timeout
WaitTimeout(t) == IF t > 0 THEN t ELSE None

\* lines 311-317: the wait set is built, the clock is read, the timeout decoded
Call(v, t) ==
    /\ pc = "idle"
    /\ pc' = "enter"
    /\ variant' = v
    /\ timeout_seconds' = t
    /\ the_children_are_our_futures' = DOMAIN tstate
    /\ start_time' = clock
    /\ wait_timeout' = WaitTimeout(t)
    /\ UNCHANGED <<clock, tstate, observer_done_at, deadline, yielded, done, pending, result>>
    /\ UNCHANGED <<managerVars, namespaceVars, countdownVars>>

\* lines 320-323, up to the suspension inside asyncio.wait: the timer is armed
\* with the whole wait_timeout, counted from now
WaitEnter ==
    /\ pc = "enter"
    /\ pc' = "waiting"
    /\ deadline' = IF wait_timeout = None THEN None ELSE clock + wait_timeout
    /\ yielded' = FALSE
    /\ UNCHANGED <<clock, tstate, observer_done_at, variant, timeout_seconds,
                   the_children_are_our_futures, start_time, wait_timeout,
                   done, pending, result>>
    /\ UNCHANGED <<managerVars, namespaceVars, countdownVars>>

\* asyncio.wait(..., return_when=FIRST_COMPLETED) resumes: a task of the wait
\* set is done, or the timer fired
WaiterReleased ==
    \/ \E t \in the_children_are_our_futures : Done(t)
    \/ deadline # None /\ clock >= deadline

\* line 328, the elapsed-time test
Expired(late) ==
    /\ wait_timeout # None
    /\ \/ clock - start_time > wait_timeout
       \/ clock - start_time = wait_timeout /\ late

\* Outcome with the test of line 285 written len(done) > 0
OutcomeAnyDone(v, d) ==
    IF v = "observe_tasks_assert_not_done" /\ Cardinality(d) > 0
    THEN "AssertionError"
    ELSE "returned"

\* lines 284-287 and 298-299: what the public method does with (done, pending)
Outcome(v, d) ==
    IF v = "observe_tasks_assert_not_done" /\ Cardinality(d) > 1
    THEN "AssertionError"
    ELSE "returned"

\* DoneSet reporting the observer alone
DoneSetObserverOnly == {t \in {Observer} : Done(t)}

\* the done set asyncio.wait reports
DoneSet == {t \in the_children_are_our_futures : Done(t)}

\* ObserverDone with the elapsed-time test of line 328 made first: an observer
\* found done after the timeout has run out does not pass the gate
ObserverDoneUnlessExpired == Done(Observer) /\ ~Expired(TRUE)

\* ObserverDone with the gate of line 325 left to any task of the wait set
AnyTaskDone == \E t \in the_children_are_our_futures : Done(t)

\* line 325, the gate
ObserverDone == Done(Observer)

\* TasksAfterWait with the tasks still running cancelled once the wait is over
TasksAfterWaitCancelled ==
    [t \in DOMAIN tstate |->
        IF tstate[t] = "running" /\ (Done(Observer) \/ (deadline # None /\ clock >= deadline))
        THEN "cancelled" ELSE tstate[t]]

\* the task states the call leaves behind: it cancels nothing
TasksAfterWait == tstate

\* lines 320-331 from the resumption of asyncio.wait to the next suspension,
\* the return or the raise; no await lies between, so it is one step
WaitReturn(late) ==
    /\ pc = "waiting"
    /\ WaiterReleased
    /\ done' = DoneSet
    /\ pending' = the_children_are_our_futures \ DoneSet
    /\ IF ObserverDone
       THEN /\ pc' = Outcome(variant, DoneSet)
            /\ result' = IF Outcome(variant, DoneSet) = "returned"
                         THEN the_children_are_our_futures \ DoneSet
                         ELSE {}
       ELSE IF Expired(late)
       THEN /\ pc' = "TimeoutError"
            /\ result' = {}
       ELSE /\ pc' = "enter"
            /\ result' = {}
    /\ tstate' = TasksAfterWait
    /\ UNCHANGED <<clock, observer_done_at, variant, timeout_seconds,
                   the_children_are_our_futures, start_time, wait_timeout,
                   deadline, yielded>>
    /\ UNCHANGED <<managerVars, namespaceVars, countdownVars>>

\* the loop's clock advances by one instant
Tick ==
    /\ clock < MaxTime
    /\ pc \notin Terminal
    /\ pc = "idle" => clock < MaxStart
    /\ pc = "waiting" => ~WaiterReleased
    /\ pc = "enter" => /\ ~yielded
                       /\ \E t \in the_children_are_our_futures : Done(t)
    /\ clock' = clock + 1
    /\ yielded' = IF pc = "enter" THEN TRUE ELSE yielded
    /\ UNCHANGED <<tstate, observer_done_at, pc, variant, timeout_seconds,
                   the_children_are_our_futures, start_time, wait_timeout,
                   deadline, done, pending, result>>
    /\ UNCHANGED <<managerVars, namespaceVars, countdownVars>>

ObserveNext ==
    \/ \E t \in DOMAIN tstate, how \in {"finished", "raised"} : Complete(t, how)
    \/ \E v \in Variants, t \in TimeoutValues : Call(v, t)
    \/ WaitEnter
    \/ \E late \in BOOLEAN : WaitReturn(late)
    \/ Tick

-----------------------------------------------------------------------------
(***************************************************************************)
(* FixtureManager: the registry of fixture types and the fixture cache.    *)
(* The registered types are those the plugin hook yields; registration is  *)
(* static, so the registry is fixed in the initial state.                  *)
(***************************************************************************)

Managers == {"M1", "M2"}

\* the fixture classes that plugins may register
FixtureTypes == {"Alpha", "Beta", "Gamma", "Delta"}
Module(cls) == "plugins"
QualName(cls) == cls

StrValue(s) == [kind |-> "str", s |-> s, n |-> 0]
IntValue(n) == [kind |-> "int", s |-> "", n |-> n]

\* which classes define the class attribute fixture_name, and its value:
\* Beta and Gamma share a name, Delta's is not a string
HasFixtureName(cls) == cls \in {"Beta", "Gamma", "Delta"}
FixtureNameOf(cls) ==
    CASE cls = "Beta" -> StrValue("shared")
      [] cls = "Gamma" -> StrValue("shared")
      [] cls = "Delta" -> IntValue(7)
      [] OTHER -> StrValue("")

\* str(): a string is itself, an integer is written in decimal
Str(v) == IF v.kind = "int" THEN ToString(v.n) ELSE v.s

\* line 184
get_canonical_name(cls) ==
    Str(IF HasFixtureName(cls)
        THEN FixtureNameOf(cls)
        ELSE StrValue(Module(cls) \o "." \o QualName(cls)))

\* the names get_fixture is asked for
RequestNames == {"plugins.Alpha", "plugins.Beta", "shared", "7", "missing"}

NoFixture == [manager |-> "", type |-> "", name |-> "", serial |-> 0]

SeqsNoRepeat(S, n) ==
    {q \in UNION {[1..k -> S] : k \in 0..n} :
        \A i, j \in DOMAIN q : i # j => q[i] # q[j]}

\* lines 186-190, Fixture.__init__ called as fixture_type(self): a new object,
\* distinct from every fixture constructed before
NewFixture(m, cls) ==
    [manager |-> m,
     type |-> cls,
     name |-> get_canonical_name(cls),
     serial |-> 1 + Cardinality({f \in instances : f.manager = m /\ f.type = cls})]

\* FirstMatch taking the last type of that canonical name instead of the first
LastMatch(n) ==
    LET hits == {i \in DOMAIN registry : get_canonical_name(registry[i]) = n}
    IN  IF hits = {} THEN 0 ELSE CHOOSE i \in hits : \A j \in hits : i >= j

\* FirstMatch with a type also answering to the qualified name of its class
FirstMatchByClassName(n) ==
    LET hits == {i \in DOMAIN registry :
                    \/ get_canonical_name(registry[i]) = n
                    \/ Module(registry[i]) \o "." \o QualName(registry[i]) = n}
    IN  IF hits = {} THEN 0 ELSE CHOOSE i \in hits : \A j \in hits : i <= j

\* lines 378-379: the first type, in the order the hook yields them, whose
\* canonical name is the one asked for (0 when there is none)
FirstMatch(n) ==
    LET hits == {i \in DOMAIN registry : get_canonical_name(registry[i]) = n}
    IN  IF hits = {} THEN 0 ELSE CHOOSE i \in hits : \A j \in hits : i <= j

\* CacheInsert into a cache that keeps the newest fixture only
CacheInsertEvicting(cache, n, fixture) == (n :> fixture)

\* CacheInsert with the assignment of line 381 left out
CacheInsertDropped(cache, n, fixture) == cache

\* line 381
CacheInsert(cache, n, fixture) == (n :> fixture) @@ cache

\* lines 375-383
get_fixture(m, n) ==
    /\ IF n \in DOMAIN fixture_cache[m]
       THEN \* line 376
            /\ last_call' = [op |-> "get_fixture", manager |-> m, name |-> n,
                             outcome |-> "returned", cached |-> TRUE,
                             value |-> fixture_cache[m][n]]
            /\ returned' = [returned EXCEPT ![m][n] = @ \cup {fixture_cache[m][n]}]
            /\ UNCHANGED <<fixture_cache, instances>>
       ELSE IF FirstMatch(n) # 0
       THEN \* lines 380-382
            LET fixture == NewFixture(m, registry[FirstMatch(n)])
            IN  /\ instances' = instances \cup {fixture}
                /\ fixture_cache' = [fixture_cache EXCEPT
                                       ![m] = CacheInsert(@, n, fixture)]
                /\ last_call' = [op |-> "get_fixture", manager |-> m, name |-> n,
                                 outcome |-> "returned", cached |-> FALSE,
                                 value |-> fixture]
                /\ returned' = [returned EXCEPT ![m][n] = @ \cup {fixture}]
       ELSE \* line 383: the KeyError of line 376 is raised again
            /\ last_call' = [op |-> "get_fixture", manager |-> m, name |-> n,
                             outcome |-> "KeyError", cached |-> FALSE,
                             value |-> NoFixture]
            /\ UNCHANGED <<fixture_cache, instances, returned>>
    /\ UNCHANGED <<registry, constructing>>
    /\ UNCHANGED <<observeVars, namespaceVars, countdownVars>>

\* lines 362-363: every registered type is yielded; nothing is constructed
fixture_types(m) ==
    /\ last_call' = [op |-> "fixture_types", manager |-> m, name |-> "",
                     outcome |-> "returned", cached |-> FALSE, value |-> NoFixture]
    /\ UNCHANGED <<registry, fixture_cache, instances, returned, constructing>>
    /\ UNCHANGED <<observeVars, namespaceVars, countdownVars>>

ManagerNext ==
    \/ \E m \in Managers, n \in RequestNames : get_fixture(m, n)
    \/ \E m \in Managers : fixture_types(m)

(***************************************************************************)
(* get_fixture with constructors that call get_fixture themselves.  Line   *)
(* 380 runs the constructor of the fixture type between the miss of line   *)
(* 376 and the insert of line 381; a subclass constructor may call the     *)
(* manager before it returns.  Calls nest on one thread: `constructing` is *)
(* the stack of the calls that are inside their constructor.               *)
(***************************************************************************)

\* lines 375-380, up to the constructor: a hit returns, a miss with no match
\* raises, a miss with a match creates the object and enters its constructor.
\* Called by a program with no construction under way, or by the constructor
\* that is running, on its own manager.
get_fixture_begin(m, n) ==
    /\ constructing # <<>> => m = constructing[Len(constructing)].manager
    /\ IF n \in DOMAIN fixture_cache[m]
       THEN /\ last_call' = [op |-> "get_fixture", manager |-> m, name |-> n,
                             outcome |-> "returned", cached |-> TRUE,
                             value |-> fixture_cache[m][n]]
            /\ returned' = [returned EXCEPT ![m][n] = @ \cup {fixture_cache[m][n]}]
            /\ UNCHANGED <<instances, constructing>>
       ELSE IF FirstMatch(n) # 0
       THEN LET fixture == NewFixture(m, registry[FirstMatch(n)])
            IN  /\ Len(constructing) < MaxDepth
                /\ instances' = instances \cup {fixture}
                /\ constructing' = Append(constructing,
                                          [manager |-> m, name |-> n, fixture |-> fixture])
                /\ last_call' = [op |-> "get_fixture", manager |-> m, name |-> n,
                                 outcome |-> "constructing", cached |-> FALSE,
                                 value |-> fixture]
                /\ UNCHANGED returned
       ELSE /\ last_call' = [op |-> "get_fixture", manager |-> m, name |-> n,
                             outcome |-> "KeyError", cached |-> FALSE,
                             value |-> NoFixture]
            /\ UNCHANGED <<instances, returned, constructing>>
    /\ UNCHANGED <<registry, fixture_cache>>
    /\ UNCHANGED <<observeVars, namespaceVars, countdownVars>>

\* lines 380-382: the innermost constructor returns, its fixture is stored in
\* the cache and returned
get_fixture_end ==
    /\ constructing # <<>>
    /\ LET top == constructing[Len(constructing)]
       IN  /\ fixture_cache' = [fixture_cache EXCEPT
                                  ![top.manager] = CacheInsert(@, top.name, top.fixture)]
           /\ returned' = [returned EXCEPT ![top.manager][top.name] = @ \cup {top.fixture}]
           /\ last_call' = [op |-> "get_fixture", manager |-> top.manager,
                            name |-> top.name, outcome |-> "returned",
                            cached |-> FALSE, value |-> top.fixture]
    /\ constructing' = SubSeq(constructing, 1, Len(constructing) - 1)
    /\ UNCHANGED <<registry, instances>>
    /\ UNCHANGED <<observeVars, namespaceVars, countdownVars>>

ReentrantNext ==
    \/ \E m \in Managers, n \in RequestNames : get_fixture_begin(m, n)
    \/ get_fixture_end

-----------------------------------------------------------------------------
(***************************************************************************)
(* Namespace and Artifacts.  An object's __dict__ holds what was assigned  *)
(* to it: _parent (line 72), _result_code for an Artifacts (line 102) and  *)
(* the attributes set by its users.  Reading an attribute is Python's      *)
(* attribute lookup: the property result_code of the class Artifacts, then *)
(* the object's __dict__, then __getattr__ (lines 74-80).                  *)
(***************************************************************************)

NoObject == 0
Keys == {"a", "result_code"}
LookupKeys == Keys \cup {"_result_code"}
Values == {5}
ResultCodes == {0, 1}

Objects == DOMAIN ns_kind

\* the objects a new one may name as its parent: the chain built so far is
\* extended at its end, so that every lookup walks one chain
Parents == IF Objects = {} THEN {NoObject} ELSE {Len(ns_kind)}

\* the instance __dict__
Dict(o) == ("_parent" :> ns_parent[o]) @@ ns_dict[o]

Found(v) == [raised |-> FALSE, value |-> v]
KeyError == [raised |-> TRUE, value |-> NoObject]

RECURSIVE getattr(_, _)
\* Namespace_getattr with the KeyError of the end of the chain swallowed: None
\* is returned
Namespace_getattr_none(o, key) ==
    IF key \in DOMAIN Dict(o)
    THEN Found(Dict(o)[key])
    ELSE IF ns_parent[o] = NoObject
    THEN Found(NoObject)
    ELSE getattr(ns_parent[o], key)

\* lines 74-80, Namespace.__getattr__: called when the normal lookup fails
Namespace_getattr(o, key) ==
    IF key \in DOMAIN Dict(o)
    THEN Found(Dict(o)[key])
    ELSE IF ns_parent[o] = NoObject
    THEN KeyError
    ELSE getattr(ns_parent[o], key)

\* getattr(o, key): the property of lines 104-110, the instance __dict__,
\* then __getattr__
getattr(o, key) ==
    IF ns_kind[o] = "Artifacts" /\ key = "result_code"
    THEN Found(Dict(o)["_result_code"])
    ELSE IF key \in DOMAIN Dict(o)
    THEN Found(Dict(o)[key])
    ELSE Namespace_getattr(o, key)

RECURSIVE Namespace_contains(_, _)
\* lines 82-88, Namespace.__contains__
Namespace_contains(o, key) ==
    IF key \in DOMAIN Dict(o)
    THEN TRUE
    ELSE IF ns_parent[o] = NoObject
    THEN FALSE
    ELSE Namespace_contains(ns_parent[o], key)

\* lines 116-117, Artifacts.__int__
Artifacts_int(o) == Dict(o)["_result_code"]

\* lines 71-72, Namespace(parent)
NewNamespace(parent) ==
    /\ Len(ns_kind) < MaxObjects
    /\ ns_kind' = Append(ns_kind, "Namespace")
    /\ ns_parent' = Append(ns_parent, parent)
    /\ ns_dict' = Append(ns_dict, <<>>)
    /\ ns_last' = [op |-> "new", obj |-> Len(ns_kind) + 1, key |-> "",
                   has |-> FALSE, raised |-> FALSE, value |-> NoObject]
    /\ UNCHANGED <<observeVars, managerVars, countdownVars>>

\* lines 100-102, Artifacts(result_code, parent)
NewArtifacts(result_code, parent) ==
    /\ Len(ns_kind) < MaxObjects
    /\ ns_kind' = Append(ns_kind, "Artifacts")
    /\ ns_parent' = Append(ns_parent, parent)
    /\ ns_dict' = Append(ns_dict, "_result_code" :> result_code)
    /\ ns_last' = [op |-> "new", obj |-> Len(ns_kind) + 1, key |-> "",
                   has |-> FALSE, raised |-> FALSE, value |-> result_code]
    /\ UNCHANGED <<observeVars, managerVars, countdownVars>>

\* DictAfterSet without the setter of lines 112-114: result_code is stored
\* under its own name
DictAfterSetNoSetter(o, key, v) == (key :> v) @@ ns_dict[o]

\* setattr(o, key, v): the setter of lines 112-114 for result_code of an
\* Artifacts, the instance __dict__ otherwise
DictAfterSet(o, key, v) ==
    IF ns_kind[o] = "Artifacts" /\ key = "result_code"
    THEN ("_result_code" :> v) @@ ns_dict[o]
    ELSE (key :> v) @@ ns_dict[o]

RECURSIVE Owner(_, _)
\* the nearest object of the chain of o, o first, whose __dict__ holds key
Owner(o, key) ==
    IF key \in DOMAIN Dict(o)
    THEN o
    ELSE IF ns_parent[o] = NoObject THEN NoObject ELSE Owner(ns_parent[o], key)

\* SetAttr writing through to the object of the chain that holds the key
SetAttrWriteThrough(o, key, v) ==
    LET target == IF Owner(o, key) = NoObject THEN o ELSE Owner(o, key)
    IN  /\ ns_dict' = [ns_dict EXCEPT ![target] = DictAfterSet(target, key, v)]
        /\ ns_last' = [op |-> "setattr", obj |-> o, key |-> key,
                       has |-> FALSE, raised |-> FALSE, value |-> v]
        /\ UNCHANGED <<ns_kind, ns_parent>>
        /\ UNCHANGED <<observeVars, managerVars, countdownVars>>

SetAttr(o, key, v) ==
    /\ ns_dict' = [ns_dict EXCEPT ![o] = DictAfterSet(o, key, v)]
    /\ ns_last' = [op |-> "setattr", obj |-> o, key |-> key,
                   has |-> FALSE, raised |-> FALSE, value |-> v]
    /\ UNCHANGED <<ns_kind, ns_parent>>
    /\ UNCHANGED <<observeVars, managerVars, countdownVars>>

\* `key in o` followed by `o.key`
Lookup(o, key) ==
    /\ ns_last' = [op |-> "lookup", obj |-> o, key |-> key,
                   has |-> Namespace_contains(o, key),
                   raised |-> getattr(o, key).raised,
                   value |-> getattr(o, key).value]
    /\ UNCHANGED <<ns_kind, ns_parent, ns_dict>>
    /\ UNCHANGED <<observeVars, managerVars, countdownVars>>

\* int(o)
Int_(o) ==
    /\ ns_kind[o] = "Artifacts"
    /\ ns_last' = [op |-> "int", obj |-> o, key |-> "",
                   has |-> FALSE, raised |-> FALSE, value |-> Artifacts_int(o)]
    /\ UNCHANGED <<ns_kind, ns_parent, ns_dict>>
    /\ UNCHANGED <<observeVars, managerVars, countdownVars>>

NamespaceNext ==
    \/ \E parent \in Parents : NewNamespace(parent)
    \/ \E c \in ResultCodes, parent \in Parents : NewArtifacts(c, parent)
    \/ \E o \in Objects, key \in Keys :
         \E v \in IF key = "result_code" THEN ResultCodes ELSE Values : SetAttr(o, key, v)
    \/ \E o \in Objects, key \in LookupKeys : Lookup(o, key)
    \/ \E o \in Objects : Int_(o)

-----------------------------------------------------------------------------
(***************************************************************************)
(* Fixture.countdown_sleep, for whole numbers of seconds.  The coroutine   *)
(* runs from one suspension to the next in one step.                       *)
(***************************************************************************)

\* the durations the helper is called with
SleepTimes == -1..MaxSleep

\* line 270
countdown_sleep(d) ==
    /\ cd_pc = "idle"
    /\ sleep_time_seconds' = d
    /\ count_down' = d
    /\ cd_pc' = "loop"
    /\ UNCHANGED <<waited, logged>>
    /\ UNCHANGED <<observeVars, managerVars, namespaceVars>>

\* lines 271-273: the loop test; the remaining time (math.ceil of a whole
\* number is the number) is logged and asyncio.sleep(1) entered, or the
\* coroutine returns
CountdownLoop ==
    /\ cd_pc = "loop"
    /\ IF count_down >= 0
       THEN /\ logged' = Append(logged, count_down)
            /\ cd_pc' = "sleeping"
       ELSE /\ cd_pc' = "returned"
            /\ UNCHANGED logged
    /\ UNCHANGED <<sleep_time_seconds, count_down, waited>>
    /\ UNCHANGED <<observeVars, managerVars, namespaceVars>>

\* lines 273-274: asyncio.sleep(1) is over, one second later
CountdownWake ==
    /\ cd_pc = "sleeping"
    /\ waited' = waited + 1
    /\ count_down' = count_down - 1
    /\ cd_pc' = "loop"
    /\ UNCHANGED <<sleep_time_seconds, logged>>
    /\ UNCHANGED <<observeVars, managerVars, namespaceVars>>

CountdownNext ==
    \/ \E d \in SleepTimes : countdown_sleep(d)
    \/ CountdownLoop
    \/ CountdownWake

-----------------------------------------------------------------------------
(* The specifications.  Each runs one component; the others stay as        *)
(* constructed.                                                            *)

NoCall == [op |-> "", manager |-> "", name |-> "", outcome |-> "", cached |-> FALSE,
           value |-> NoFixture]
NoOp == [op |-> "", obj |-> NoObject, key |-> "", has |-> FALSE, raised |-> FALSE,
         value |-> NoObject]

\* the observer and the companions (*args) exist before the call, as
\* coroutines or as futures already scheduled
InitObserve ==
    /\ clock = 0
    /\ \E n \in 0..MaxCompanions :
         tstate = [t \in {Observer} \cup {Companion(i) : i \in 1..n} |-> "running"]
    /\ observer_done_at = None
    /\ pc = "idle"
    /\ variant = "observe_tasks"
    /\ timeout_seconds = 0
    /\ the_children_are_our_futures = {}
    /\ start_time = 0
    /\ wait_timeout = None
    /\ deadline = None
    /\ yielded = FALSE
    /\ done = {}
    /\ pending = {}
    /\ result = {}
    /\ registry = <<>>
    /\ fixture_cache = [m \in Managers |-> <<>>]
    /\ instances = {}
    /\ returned = [m \in Managers |-> [n \in RequestNames |-> {}]]
    /\ last_call = NoCall
    /\ constructing = <<>>
    /\ ns_kind = <<>>
    /\ ns_parent = <<>>
    /\ ns_dict = <<>>
    /\ ns_last = NoOp
    /\ sleep_time_seconds = 0
    /\ count_down = 0
    /\ cd_pc = "idle"
    /\ waited = 0
    /\ logged = <<>>

SpecObserve == InitObserve /\ [][ObserveNext]_vars

\* The same with the scheduling of the event loop: a call that can run does
\* (it enters asyncio.wait, and it is resumed once its waiter is released),
\* and the clock keeps advancing whatever the call does.  Tasks need never
\* complete.
FairObserve ==
    /\ WF_vars(WaitEnter)
    /\ WF_vars(\E late \in BOOLEAN : WaitReturn(late))
    /\ SF_vars(Tick)

SpecObserveLive == InitObserve /\ [][ObserveNext]_vars /\ FairObserve

\* lines 345-347: a new manager has an empty cache; the plugins are loaded
InitManager ==
    /\ clock = 0
    /\ tstate = [t \in {Observer} |-> "running"]
    /\ observer_done_at = None
    /\ pc = "idle"
    /\ variant = "observe_tasks"
    /\ timeout_seconds = 0
    /\ the_children_are_our_futures = {}
    /\ start_time = 0
    /\ wait_timeout = None
    /\ deadline = None
    /\ yielded = FALSE
    /\ done = {}
    /\ pending = {}
    /\ result = {}
    /\ registry \in SeqsNoRepeat(FixtureTypes, MaxTypes)
    /\ fixture_cache = [m \in Managers |-> <<>>]
    /\ instances = {}
    /\ returned = [m \in Managers |-> [n \in RequestNames |-> {}]]
    /\ last_call = NoCall
    /\ constructing = <<>>
    /\ ns_kind = <<>>
    /\ ns_parent = <<>>
    /\ ns_dict = <<>>
    /\ ns_last = NoOp
    /\ sleep_time_seconds = 0
    /\ count_down = 0
    /\ cd_pc = "idle"
    /\ waited = 0
    /\ logged = <<>>

SpecManager == InitManager /\ [][ManagerNext]_vars

SpecReentrant == InitManager /\ [][ReentrantNext]_vars

InitNamespace ==
    /\ clock = 0
    /\ tstate = [t \in {Observer} |-> "running"]
    /\ observer_done_at = None
    /\ pc = "idle"
    /\ variant = "observe_tasks"
    /\ timeout_seconds = 0
    /\ the_children_are_our_futures = {}
    /\ start_time = 0
    /\ wait_timeout = None
    /\ deadline = None
    /\ yielded = FALSE
    /\ done = {}
    /\ pending = {}
    /\ result = {}
    /\ registry = <<>>
    /\ fixture_cache = [m \in Managers |-> <<>>]
    /\ instances = {}
    /\ returned = [m \in Managers |-> [n \in RequestNames |-> {}]]
    /\ last_call = NoCall
    /\ constructing = <<>>
    /\ ns_kind = <<>>
    /\ ns_parent = <<>>
    /\ ns_dict = <<>>
    /\ ns_last = NoOp
    /\ sleep_time_seconds = 0
    /\ count_down = 0
    /\ cd_pc = "idle"
    /\ waited = 0
    /\ logged = <<>>

SpecNamespace == InitNamespace /\ [][NamespaceNext]_vars

\* countdown_sleep has not been called; it needs no manager, no task and no
\* namespace
InitCountdown == InitNamespace

SpecCountdown == InitCountdown /\ [][CountdownNext]_vars

-----------------------------------------------------------------------------
(***************************************************************************)
(* Properties                                                              *)
(***************************************************************************)

InstancesOf(m, cls) == {f \in instances : f.manager = m /\ f.type = cls}
TypesNamed(n) == {cls \in FixtureTypes :
                    /\ \E i \in DOMAIN registry : registry[i] = cls
                    /\ get_canonical_name(cls) = n}

\* C1: for every manager M and every name n, all the get_fixture(n) calls made
\* on M so far returned one and the same instance, and M constructed each type
\* of that name at most once (and at most one fixture of that name in all).
C1_SameInstance ==
    \A m \in Managers, n \in RequestNames :
        /\ Cardinality(returned[m][n]) <= 1
        /\ \A cls \in TypesNamed(n) : Cardinality(InstancesOf(m, cls)) <= 1
        /\ Cardinality({f \in instances : f.manager = m /\ f.name = n}) <= 1
        /\ (last_call.op = "get_fixture" /\ last_call.manager = m /\ last_call.name = n
              /\ last_call.outcome = "returned")
           => returned[m][n] = {last_call.value}

\* a call answered from the cache with the instance an earlier call constructed,
\* for the name two registered types share
C1_Witness ==
    /\ last_call.op = "get_fixture"
    /\ last_call.cached
    /\ last_call.name = "shared"
    /\ Cardinality(TypesNamed("shared")) = 2
    /\ returned[last_call.manager]["shared"] = {last_call.value}
    /\ last_call.value \in instances

\* C6: a get_fixture(n) call on M with n not cached and no registered type of
\* canonical name n raises (the KeyError is the NotFound failure), constructs
\* nothing and leaves the cache of M (of every manager) as it was.
C6_NotFound ==
    [][(/\ last_call'.op = "get_fixture"
        /\ last_call'.name \notin DOMAIN fixture_cache[last_call'.manager]
        /\ \A i \in DOMAIN registry :
              get_canonical_name(registry[i]) # last_call'.name)
       => (/\ last_call'.outcome = "KeyError"
           /\ instances' = instances
           /\ fixture_cache' = fixture_cache
           /\ returned' = returned)]_vars

\* the name of a class whose fixture_name overrides it is not found, on a
\* manager that has cached another fixture
C6_Witness ==
    /\ last_call.op = "get_fixture"
    /\ last_call.name = "plugins.Beta"
    /\ last_call.outcome = "KeyError"
    /\ \E i \in DOMAIN registry : registry[i] = "Beta"
    /\ "shared" \in DOMAIN fixture_cache[last_call.manager]

WaitSet == the_children_are_our_futures
Normal == {"returned", "AssertionError"}

\* C2: the call ends normally (returns, or reaches the check of
\* observe_tasks_assert_not_done) only with the observer done and in the done
\* set; with the observer still running a wait cycle ends in another wait or
\* in the timeout, however many companions are done.
C2_ObserverIsTheGate ==
    /\ pc \in Normal => Done(Observer) /\ Observer \in done
    /\ pc = "enter" => Observer \notin done

\* every companion has completed, a wait cycle has ended on it, and the call
\* waits again for the observer
C2_Witness ==
    /\ pc = "waiting"
    /\ Cardinality(WaitSet) = 3
    /\ done = WaitSet \ {Observer}
    /\ ~Done(Observer)

\* C3: with a timeout T > 0 the call returns normally only if the observer
\* completed no later than T after the start of the call: once the observer
\* is not done and more than T has elapsed, the call does not return normally.
C3_TimeoutBeyondT ==
    (pc \in Normal /\ timeout_seconds > 0)
        => observer_done_at - start_time <= timeout_seconds

\* C4: on a normal return the pending set returned is the tasks of the wait set
\* not done when the observer was found done; done and pending are disjoint and
\* cover the wait set, and the observer is done.  An observer waited for alone
\* gives the empty set.
C4_PendingSet ==
    pc = "returned" =>
        /\ result = pending
        /\ pending = {t \in WaitSet : ~Done(t)}
        /\ done = {t \in WaitSet : Done(t)}
        /\ done \cap pending = {}
        /\ done \cup pending = WaitSet
        /\ Observer \in done
        /\ WaitSet = {Observer} => result = {}

\* observer done 1 after the start, timeout 5, one companion still running:
\* the pending set is that companion
C4_Witness ==
    /\ pc = "returned"
    /\ timeout_seconds = 5
    /\ observer_done_at = start_time + 1
    /\ WaitSet = {Observer, Companion(1)}
    /\ result = {Companion(1)}

\* C5: when the observer is found done, observe_tasks_assert_not_done raises
\* AssertionError exactly when a companion is done too, and otherwise returns
\* the tasks not done, as observe_tasks does; observe_tasks returns in both
\* cases.
C5_AssertVariant ==
    pc \in Normal =>
        /\ variant = "observe_tasks_assert_not_done" =>
              (pc = "AssertionError" <=> \E c \in WaitSet \ {Observer} : Done(c))
        /\ variant = "observe_tasks" => pc = "returned"
        /\ pc = "returned" => result = {t \in WaitSet : ~Done(t)}

\* the observer completes 3 after the start, a companion is done by then: the
\* assert variant fails
C5_Witness ==
    /\ pc = "AssertionError"
    /\ variant = "observe_tasks_assert_not_done"
    /\ observer_done_at = start_time + 3
    /\ done = {Observer, Companion(1)}
    /\ WaitSet = {Observer, Companion(1)}

\* C9: with a timeout that is zero or negative no timer is armed and the call
\* never raises TimeoutError; it ends only with the observer done.
C9_NoTimeout ==
    (pc # "idle" /\ timeout_seconds <= 0) =>
        /\ pc # "TimeoutError"
        /\ wait_timeout = None
        /\ pc = "waiting" => deadline = None
        /\ pc \in Terminal => Done(Observer)

\* timeout 0, four instants after the start, both companions done, and the
\* call still waits for the observer
C9_Witness ==
    /\ timeout_seconds = 0
    /\ pc = "waiting"
    /\ clock - start_time >= 4
    /\ Cardinality(done) = 2
    /\ ~Done(Observer)

\* C10: no step of the call changes the state of a task: the pending tasks of
\* a normal return are running, and a TimeoutError leaves every task as it
\* was.
C10_NoCancel ==
    [][pc' # pc =>
         /\ tstate' = tstate
         /\ pc' = "returned" => \A t \in result' : tstate'[t] = "running"
         /\ pc' = "TimeoutError" =>
               \A t \in WaitSet : tstate[t] = "running" => tstate'[t] = "running"]_vars

\* a timeout with the observer and one companion still running
C10_Witness ==
    /\ pc = "TimeoutError"
    /\ tstate[Observer] = "running"
    /\ \E c \in WaitSet \ {Observer} : tstate[c] = "running"
    /\ \E c \in WaitSet \ {Observer} : tstate[c] = "raised"

\* the chain of an object: itself, its parent, its parent's parent, ...
RECURSIVE Chain(_)
Chain(o) == IF ns_parent[o] = NoObject THEN <<o>> ELSE <<o>> \o Chain(ns_parent[o])

\* the first object of a chain, from its start, that satisfies P (0: none)
Nearest(c, P(_)) ==
    LET hits == {i \in DOMAIN c : P(c[i])}
    IN  IF hits = {} THEN NoObject ELSE c[CHOOSE i \in hits : \A j \in hits : i <= j]

BindsLocally(o, key) == key \in DOMAIN Dict(o)
IsArtifactsCode(o, key) == ns_kind[o] = "Artifacts" /\ key = "result_code"

\* C7 as stated: a lookup N.get(k) gives the value of the nearest object of the
\* chain of N whose local mapping binds k, and it raises KeyError only when no
\* object of the chain binds k.
C7_NearestLocalBinding ==
    ns_last.op = "lookup" =>
        LET B(o) == BindsLocally(o, ns_last.key)
            n == Nearest(Chain(ns_last.obj), B)
        IN  /\ n # NoObject => ~ns_last.raised /\ ns_last.value = Dict(n)[ns_last.key]
            /\ ns_last.raised => n = NoObject

\* C7 amended: a lookup gives the value of the nearest object of the chain of
\* N, N first, that binds k, an Artifacts counting as binding result_code to
\* its result code; it raises KeyError exactly when no object of the chain
\* binds k in that sense.
C7_NearestBindingOrProperty ==
    ns_last.op = "lookup" =>
        LET B(o) == BindsLocally(o, ns_last.key) \/ IsArtifactsCode(o, ns_last.key)
            n == Nearest(Chain(ns_last.obj), B)
        IN  IF n = NoObject
            THEN ns_last.raised
            ELSE /\ ~ns_last.raised
                 /\ ns_last.value = IF IsArtifactsCode(n, ns_last.key)
                                    THEN Dict(n)["_result_code"]
                                    ELSE Dict(n)[ns_last.key]

\* a lookup through two ancestors that both bind the key, to different values:
\* the parent's value is returned, not the grandparent's
C7_Witness ==
    /\ ns_last.op = "lookup"
    /\ ns_last.key = "result_code"
    /\ Len(Chain(ns_last.obj)) = 3
    /\ LET c == Chain(ns_last.obj)
       IN  /\ ~BindsLocally(c[1], "result_code")
           /\ ns_kind = [o \in Objects |-> "Namespace"]
           /\ BindsLocally(c[2], "result_code")
           /\ BindsLocally(c[3], "result_code")
           /\ Dict(c[2])["result_code"] # Dict(c[3])["result_code"]
           /\ ns_last.value = Dict(c[2])["result_code"]
           /\ ~ns_last.raised

\* C8 as stated: `key in N` is true exactly when N.key succeeds.
C8_ContainsAgreesWithGet ==
    ns_last.op = "lookup" => (ns_last.has <=> ~ns_last.raised)

\* the ancestors of an object: its chain without itself
Ancestors(o) == {Chain(o)[i] : i \in 2..Len(Chain(o))}

\* C11: no operation changes what an ancestor binds.  A step that sets a key
\* on N changes the local mapping of N alone: the mapping of every other
\* object, what a lookup made directly on an ancestor of N gives, and every
\* parent reference stay as they were; a step that sets nothing changes no
\* mapping and no parent reference of an existing object.
C11_WritesAreLocal ==
    [][/\ \A o \in Objects : /\ ns_parent'[o] = ns_parent[o]
                             /\ ns_kind'[o] = ns_kind[o]
       /\ ns_last'.op # "setattr" => \A o \in Objects : ns_dict'[o] = ns_dict[o]
       /\ ns_last'.op = "setattr" =>
             /\ \A o \in Objects \ {ns_last'.obj} : ns_dict'[o] = ns_dict[o]
             /\ \A p \in Ancestors(ns_last'.obj), k \in LookupKeys :
                   getattr(p, k)' = getattr(p, k)]_vars

\* a key bound by the parent is set on the child to another value: the parent
\* keeps its own
C11_Witness ==
    /\ ns_last.op = "setattr"
    /\ ns_parent[ns_last.obj] # NoObject
    /\ ns_last.key \in DOMAIN ns_dict[ns_parent[ns_last.obj]]
    /\ ns_dict[ns_parent[ns_last.obj]][ns_last.key] # ns_last.value
    /\ ns_dict[ns_last.obj][ns_last.key] = ns_last.value

\* what an object binds beside the result code
OtherBindings(d) == [k \in DOMAIN d \ {"_result_code"} |-> d[k]]

\* C12: int() of an Artifacts gives the code it was constructed with and,
\* after assignments to result_code, the code assigned last: constructing an
\* Artifacts with code c and assigning c to result_code both make the
\* conversion c, every other step leaves the conversion of every Artifacts as
\* it was, and int() reports it.  An assignment to result_code changes no
\* other binding of the Artifacts and nothing of any other object.
C12_IntRoundTrip ==
    [][/\ \A o \in DOMAIN ns_kind' :
             (ns_last'.op = "new" /\ ns_last'.obj = o /\ ns_kind'[o] = "Artifacts")
                => Artifacts_int(o)' = ns_last'.value
       /\ \A o \in Objects :
             ns_kind[o] = "Artifacts" =>
               IF ns_last'.op = "setattr" /\ ns_last'.obj = o /\ ns_last'.key = "result_code"
               THEN /\ Artifacts_int(o)' = ns_last'.value
                    /\ getattr(o, "result_code")' = Found(ns_last'.value)
                    /\ OtherBindings(Dict(o))' = OtherBindings(Dict(o))
                    /\ \A p \in Objects \ {o} : Dict(p)' = Dict(p)
               ELSE Artifacts_int(o)' = Artifacts_int(o)
       /\ \A o \in Objects :
             (ns_last'.op = "int" /\ ns_last'.obj = o)
                => /\ ns_last'.value = Artifacts_int(o)
                   /\ ns_dict' = ns_dict]_vars

\* an Artifacts whose result code is 1 while its parent, an Artifacts too,
\* has 0, is converted: 1
C12_Witness ==
    /\ ns_last.op = "int"
    /\ ns_last.value = 1
    /\ ns_parent[ns_last.obj] # NoObject
    /\ ns_kind[ns_parent[ns_last.obj]] = "Artifacts"
    /\ Artifacts_int(ns_parent[ns_last.obj]) = 0
    /\ "a" \in DOMAIN ns_dict[ns_last.obj]

\* C13: with a timeout T > 0 every wait is bounded by what is left of T: the
\* timer of a wait in progress is due no later than T after the start of the
\* call.
C13_WaitWithinBudget ==
    (pc = "waiting" /\ wait_timeout # None)
        => deadline - start_time <= wait_timeout

\* C14: a manager constructs at most one instance per canonical name, also
\* when get_fixture is called again for that name by the constructor it runs.
C14_OneInstancePerName ==
    \A m \in Managers, n \in RequestNames :
        Cardinality({f \in instances : f.manager = m /\ f.name = n}) <= 1

\* C15: the cache of a manager only grows.  It is empty when the manager is
\* constructed; enumerating fixture_types constructs nothing and changes no
\* cache; the names cached by M change only by a get_fixture call on M that
\* misses and finds a type, which adds the one name asked for; and an entry,
\* once there, stays with the same instance through every later call.
C15_CacheOnlyGrows ==
    [][/\ last_call = NoCall => \A m \in Managers : fixture_cache[m] = <<>>
       /\ last_call'.op = "fixture_types" =>
            (instances' = instances /\ fixture_cache' = fixture_cache)
       /\ \A m \in Managers :
            /\ \A n \in DOMAIN fixture_cache[m] :
                  /\ n \in DOMAIN fixture_cache'[m]
                  /\ fixture_cache'[m][n] = fixture_cache[m][n]
            /\ DOMAIN fixture_cache'[m] # DOMAIN fixture_cache[m] =>
                  /\ last_call' = [op |-> "get_fixture", manager |-> m,
                                   name |-> last_call'.name, outcome |-> "returned",
                                   cached |-> FALSE, value |-> last_call'.value]
                  /\ last_call'.name \notin DOMAIN fixture_cache[m]
                  /\ DOMAIN fixture_cache'[m] =
                        DOMAIN fixture_cache[m] \cup {last_call'.name}]_vars

\* a third name is cached by a manager and the two cached before are still
\* there
C15_Witness ==
    /\ last_call.op = "get_fixture"
    /\ last_call.outcome = "returned"
    /\ ~last_call.cached
    /\ Cardinality(DOMAIN fixture_cache[last_call.manager]) = 3
    /\ \A n \in DOMAIN fixture_cache[last_call.manager] :
          returned[last_call.manager][n] = {fixture_cache[last_call.manager][n]}

\* C16: a companion that ended by raising is done like one that finished.
\* When the call has ended, every such companion is in the done set and
\* neither pending nor returned; the call ended as it would have without the
\* error (a return with the observer done, a TimeoutError without), and
\* observe_tasks_assert_not_done raised AssertionError if the observer is
\* done.
C16_RaisedIsDone ==
    pc \in Terminal =>
        \A c \in WaitSet \ {Observer} :
            tstate[c] = "raised" =>
                /\ c \in done
                /\ c \notin pending
                /\ c \notin result
                /\ Done(Observer) =>
                      pc = IF variant = "observe_tasks" THEN "returned" ELSE "AssertionError"
                /\ ~Done(Observer) => pc = "TimeoutError"

\* the only companion raised, the observer finished later: observe_tasks
\* returns with nothing pending
C16_Witness ==
    /\ pc = "returned"
    /\ variant = "observe_tasks"
    /\ WaitSet = {Observer, Companion(1)}
    /\ tstate[Companion(1)] = "raised"
    /\ tstate[Observer] = "finished"
    /\ done = WaitSet
    /\ result = {}

\* the type is registered, has canonical name n, and no type yielded before it
\* has that name
IsFirstTypeNamed(cls, n) ==
    \E i \in DOMAIN registry :
        /\ registry[i] = cls
        /\ get_canonical_name(cls) = n
        /\ \A j \in 1..(i - 1) : get_canonical_name(registry[j]) # n

\* C17: in every state, the entry of the cache of M under the name n is a
\* fixture whose manager is M, whose name is n and whose type is registered
\* with canonical name n, the first such type in the order of enumeration;
\* and every fixture ever constructed is of the first type of its name, so a
\* later type sharing the name is never instantiated.
C17_CacheEntriesTyped ==
    /\ \A m \in Managers :
         \A n \in DOMAIN fixture_cache[m] :
            /\ fixture_cache[m][n].manager = m
            /\ fixture_cache[m][n].name = n
            /\ fixture_cache[m][n] \in instances
            /\ IsFirstTypeNamed(fixture_cache[m][n].type, n)
    /\ \A f \in instances : IsFirstTypeNamed(f.type, f.name)

\* Gamma is yielded before Beta, both named "shared": the cached fixture is a
\* Gamma and no Beta exists
C17_Witness ==
    /\ \E i, j \in DOMAIN registry :
          i < j /\ registry[i] = "Gamma" /\ registry[j] = "Beta"
    /\ \A m \in Managers :
          /\ "shared" \in DOMAIN fixture_cache[m]
          /\ fixture_cache[m]["shared"].type = "Gamma"
    /\ last_call.cached

\* C18: TimeoutError is raised only with the observer not done.  The test of
\* the observer comes before the test of the elapsed time, so a call that
\* ended with the observer done ended normally, also when more than the
\* timeout had elapsed by then, and a call that ended in TimeoutError did so
\* with the observer running, absent from the done set, a timeout in force.
C18_ObserverCheckedFirst ==
    pc \in Terminal =>
        /\ Done(Observer) => pc \in Normal
        /\ pc = "TimeoutError" =>
              /\ ~Done(Observer)
              /\ Observer \notin done
              /\ wait_timeout # None
              /\ clock - start_time >= wait_timeout

\* the observer is found done when more than the timeout has elapsed since
\* the start: the call returns
C18_Witness ==
    /\ pc = "returned"
    /\ timeout_seconds > 0
    /\ clock - start_time > timeout_seconds
    /\ observer_done_at = clock

\* the timeouts whose calls run to their end within the instants modelled: a
\* call started by MaxStart ends by twice its timeout later
LiveTimeouts == {t \in TimeoutValues : t > 0 /\ MaxStart + 2 * t <= MaxTime}

\* C19: with a timeout T > 0 and a clock that keeps advancing, a call that
\* has started eventually ends, by a return (or the AssertionError of the
\* assert variant) or by TimeoutError, whatever tasks complete and whenever.
C19_CallEnds ==
    (pc = "enter" /\ timeout_seconds \in LiveTimeouts) ~> (pc \in Terminal)

\* the call ends in TimeoutError with the observer still running and a
\* companion done since before the timeout
C19_Witness ==
    /\ pc = "TimeoutError"
    /\ timeout_seconds \in LiveTimeouts
    /\ tstate[Observer] = "running"
    /\ \E c \in WaitSet \ {Observer} : Done(c)
    /\ \E c \in WaitSet \ {Observer} : ~Done(c)
    /\ clock - start_time > timeout_seconds

\* C20: countdown_sleep(d), d a whole number of seconds that is not
\* negative, never waits longer than d, and when it returns it has slept d
\* times one second, having logged the remaining time before each sleep.
C20_WaitsForDuration ==
    (cd_pc # "idle" /\ sleep_time_seconds >= 0) =>
        /\ waited <= sleep_time_seconds
        /\ cd_pc = "returned" => /\ waited = sleep_time_seconds
                                 /\ Len(logged) = sleep_time_seconds

====
